---- MODULE Spec2Model ----
(***************************************************************************)
(* Model of the Ludo-style rules engine of boardoverse_backend:            *)
(* src/gameLogic.js (board topology, isValidMove, moveToken, nextTurn,     *)
(* makeComputerMove) and src/services/gameService.js (createGame,          *)
(* joinGame, rollDice, playRoll, skipTurn).                                *)
(*                                                                         *)
(* The variable game is the JavaScript game object; every operator that    *)
(* the code writes as a procedure mutating game is a function from the     *)
(* game before the call to the game after it.  Tokens are numbered 1..16   *)
(* in the order initializeTokens pushes them (RED-0..RED-3, GREEN-0.., ...)*)
(***************************************************************************)
EXTENDS Integers, Sequences, FiniteSets, TLC

\* ------------------------------------------------------------------------
\* Board constants (src/gameLogic.js:4-31)
\* ------------------------------------------------------------------------
TRACK_LENGTH == 52
HOME_COLUMN_LENGTH == 6
TOKENS_PER_PLAYER == 4

COLORS == <<"RED", "GREEN", "YELLOW", "BLUE">>

PLAYER_START_OFFSETS ==
  [RED    |-> (0 + 9) % TRACK_LENGTH,
   GREEN  |-> (13 + 9) % TRACK_LENGTH,
   YELLOW |-> (26 + 9) % TRACK_LENGTH,
   BLUE   |-> (39 + 9) % TRACK_LENGTH]

SAFE_SQUARE_INDICES ==
  {PLAYER_START_OFFSETS.RED, PLAYER_START_OFFSETS.GREEN,
   PLAYER_START_OFFSETS.YELLOW, PLAYER_START_OFFSETS.BLUE}

\* token.position sentinels: -1 in base, 99 completed
IN_BASE == -1
COMPLETED_POSITION == 99

NumTokens == Len(COLORS) * TOKENS_PER_PLAYER
TokenIds == 1..NumTokens

\* token.color and token.playerIndex as initializeTokens sets them: the
\* playerIndex of a token is the index of its colour (0..3), not a seat.
ColorOf(k) == COLORS[((k - 1) \div TOKENS_PER_PLAYER) + 1]
TokenPlayerIndex(k) == (k - 1) \div TOKENS_PER_PLAYER

\* String.prototype.toLowerCase on the four colour names
ToLowerCase(c) ==
  CASE c = "RED" -> "red"
    [] c = "GREEN" -> "green"
    [] c = "YELLOW" -> "yellow"
    [] c = "BLUE" -> "blue"
    [] OTHER -> c

\* Array.prototype.includes
Includes(seq, x) == \E i \in DOMAIN seq : seq[i] = x

\* Array.prototype.findIndex(v => v === x), 0-based, -1 when absent
FindIndex(seq, x) ==
  IF Includes(seq, x)
    THEN (CHOOSE i \in DOMAIN seq :
            seq[i] = x /\ \A j \in DOMAIN seq : seq[j] = x => i <= j) - 1
    ELSE -1

\* Array.prototype.splice(idx, 1) with a 0-based idx
Splice(seq, idx) ==
  [i \in 1..(Len(seq) - 1) |-> IF i <= idx THEN seq[i] ELSE seq[i + 1]]

initializeTokens ==
  [k \in TokenIds |-> [position |-> IN_BASE, steps |-> 0, completed |-> FALSE]]

\* ------------------------------------------------------------------------
\* Move legality (src/gameLogic.js:228-299, 375-400)
\* ------------------------------------------------------------------------
getProjectedGlobalPosition(toks, k, diceValue) ==
  IF toks[k].position = IN_BASE
    THEN IF diceValue = 6 THEN PLAYER_START_OFFSETS[ColorOf(k)] ELSE IN_BASE
    ELSE LET projectedSteps == toks[k].steps + diceValue IN
         IF projectedSteps >= TRACK_LENGTH + HOME_COLUMN_LENGTH
           THEN COMPLETED_POSITION
           ELSE IF projectedSteps >= TRACK_LENGTH
             THEN 100 + TokenPlayerIndex(k) * 10
                      + (projectedSteps - TRACK_LENGTH) - 1
             ELSE (PLAYER_START_OFFSETS[ColorOf(k)] + projectedSteps - 1)
                    % TRACK_LENGTH

isValidMoveCore(g, k) ==
  LET token == g.tokens[k]
      diceValue == g.diceValue
  IN
  IF token.position = IN_BASE
    THEN diceValue = 6
    ELSE
      LET newPositionSteps == token.steps + diceValue
          commonPathLength == TRACK_LENGTH
          homePathLength == HOME_COLUMN_LENGTH
          targetCommonTrackPosition ==
            (PLAYER_START_OFFSETS[ColorOf(k)] + newPositionSteps - 1)
              % commonPathLength
          overshoot ==
            /\ token.steps < (commonPathLength + homePathLength) - 1
            /\ \/ newPositionSteps > commonPathLength + homePathLength - 1
               \/ /\ token.steps <= commonPathLength
                  /\ newPositionSteps > commonPathLength
                  /\ newPositionSteps - commonPathLength > HOME_COLUMN_LENGTH
          isTargetSafe == targetCommonTrackPosition \in SAFE_SQUARE_INDICES
          isMovingOnHomePath == newPositionSteps > commonPathLength
          targetGlobalPosition ==
            getProjectedGlobalPosition(g.tokens, k, diceValue)
          collision ==
            \E o \in TokenIds :
              /\ o # k
              /\ ~g.tokens[o].completed
              /\ getProjectedGlobalPosition(g.tokens, o, 0)
                   = targetGlobalPosition
              /\ \/ ColorOf(o) = ColorOf(k)
                 \/ isTargetSafe
                 \/ isMovingOnHomePath
      IN ~overshoot /\ ~collision

\* variant rule: a token may leave base on any face once a token of its
\* colour is on the board
isValidMoveTeammateOut(g, k) ==
  IF g.tokens[k].position = IN_BASE
    THEN \/ g.diceValue = 6
         \/ \E o \in TokenIds : /\ ColorOf(o) = ColorOf(k)
                                 /\ g.tokens[o].position # IN_BASE
                                 /\ ~g.tokens[o].completed
    ELSE isValidMoveCore(g, k)

isValidMove(g, k) == isValidMoveCore(g, k)

\* ------------------------------------------------------------------------
\* Win detection (src/gameLogic.js:407-420)
\* ------------------------------------------------------------------------
RECURSIVE pushWinners(_, _, _, _)
pushWinners(players, toks, winners, i) ==
  IF i > Len(players) THEN winners
  ELSE
    LET pIdx == players[i].playerIndex
        allTokensCompleted ==
          \A k \in TokenIds : TokenPlayerIndex(k) = pIdx => toks[k].completed
    IN pushWinners(players, toks,
                   IF allTokensCompleted /\ ~Includes(winners, pIdx)
                     THEN Append(winners, pIdx) ELSE winners,
                   i + 1)

checkWinCondition(g) ==
  LET w == pushWinners(g.players, g.tokens, g.winners, 1) IN
  [g EXCEPT !.winners = w,
            !.gameOver = IF Len(w) = Len(g.players) THEN TRUE ELSE @]

\* ------------------------------------------------------------------------
\* Move application (src/gameLogic.js:306-372)
\* ------------------------------------------------------------------------
\* the first token that game.tokens.find(...) of the capture check returns,
\* 0 when there is none
captureTargetCore(toks, k) ==
  LET hit(t) == /\ toks[t].position = toks[k].position
                /\ ColorOf(t) # ColorOf(k)
                /\ toks[t].position # IN_BASE
                /\ toks[k].position \notin SAFE_SQUARE_INDICES
  IN IF \E t \in TokenIds : hit(t)
       THEN CHOOSE t \in TokenIds : hit(t) /\ \A u \in TokenIds : hit(u) => t <= u
       ELSE 0

\* variant: the capture check without the safe-square exemption
captureTargetAnySquare(toks, k) ==
  LET hit(t) == /\ toks[t].position = toks[k].position
                /\ ColorOf(t) # ColorOf(k)
                /\ toks[t].position # IN_BASE
  IN IF \E t \in TokenIds : hit(t)
       THEN CHOOSE t \in TokenIds : hit(t) /\ \A u \in TokenIds : hit(u) => t <= u
       ELSE 0

captureTarget(toks, k) == captureTargetCore(toks, k)

moveTokenCore(g, k) ==
  LET token == g.tokens[k]
      diceValue == g.diceValue
      commonPathLength == TRACK_LENGTH
      homePathLength == HOME_COLUMN_LENGTH
  IN
  IF ~isValidMove(g, k) THEN g
  ELSE IF token.position = IN_BASE
    THEN [g EXCEPT !.tokens[k].position = PLAYER_START_OFFSETS[ColorOf(k)],
                   !.tokens[k].steps = 1]
    ELSE
      LET targetSteps == token.steps + diceValue
          newPosition ==
            IF token.steps < commonPathLength /\ targetSteps >= commonPathLength
              THEN 100 + TokenPlayerIndex(k) * 10
                       + (targetSteps - commonPathLength) - 1
              ELSE IF token.steps >= commonPathLength
                THEN 100 + TokenPlayerIndex(k) * 10
                         + (targetSteps - commonPathLength)
                ELSE (PLAYER_START_OFFSETS[ColorOf(k)] - (targetSteps - 1)
                        + commonPathLength) % commonPathLength
          moved == [g.tokens EXCEPT ![k].position = newPosition,
                                    ![k].steps = targetSteps]
          victim == IF targetSteps <= commonPathLength
                      THEN captureTarget(moved, k) ELSE 0
          captured == IF victim # 0
                        THEN [moved EXCEPT ![victim].position = IN_BASE,
                                           ![victim].steps = 0]
                        ELSE moved
      IN IF targetSteps >= commonPathLength + homePathLength
           THEN checkWinCondition(
                  [g EXCEPT !.tokens =
                     [captured EXCEPT ![k].completed = TRUE,
                                      ![k].position = COMPLETED_POSITION]])
           ELSE [g EXCEPT !.tokens = captured]

moveToken(g, k) == moveTokenCore(g, k)

\* ------------------------------------------------------------------------
\* Turn advance and move search (src/gameLogic.js:426-453)
\* ------------------------------------------------------------------------
\* setTimeout(() => makeComputerMove(game), ...): one more pending callback
scheduleAI(g) == [g EXCEPT !.aiTimers = @ + 1]

nextTurnCore(g) ==
  LET nextPlayerIndex == (g.currentPlayer + 1) % Len(g.players)
      g1 == [g EXCEPT !.currentRolls = <<>>,
                      !.originalRolls = <<>>,
                      !.currentPlayer = nextPlayerIndex]
  IN IF g1.vsComputer /\ g1.players[nextPlayerIndex + 1].id = "AI"
       THEN scheduleAI(g1) ELSE g1

\* variant: the turn advance clears the faces left to play only
nextTurnKeepsOriginal(g) ==
  [nextTurnCore(g) EXCEPT !.originalRolls = g.originalRolls]

nextTurn(g) == nextTurnCore(g)

checkForValidMoves(g, playerIndex) ==
  LET allowedColors == g.players[playerIndex + 1].colors IN
  \E k \in TokenIds :
    /\ Includes(allowedColors, ToLowerCase(ColorOf(k)))
    /\ isValidMove(g, k)

\* ------------------------------------------------------------------------
\* Computer player (src/gameLogic.js:459-513)
\* ------------------------------------------------------------------------
\* possibleMoves in the order the nested forEach pushes them: roll index
\* first, token order second.  A move is <<i, k>>: 0-based roll index i and
\* token k.
possibleMoves(g) ==
  LET n == Len(g.currentRolls) * NumTokens
      all == [m \in 1..n |-> <<(m - 1) \div NumTokens,
                               ((m - 1) % NumTokens) + 1>>]
      colors == g.players[g.currentPlayer + 1].colors
      ok(m) == /\ Includes(colors, ToLowerCase(ColorOf(m[2])))
               /\ isValidMove([g EXCEPT !.diceValue = g.currentRolls[m[1] + 1]],
                              m[2])
  IN SelectSeq(all, ok)

bestMoveCore(g, moves) ==
  LET leavesBase(m) == /\ g.currentRolls[m[1] + 1] = 6
                       /\ g.tokens[m[2]].position = IN_BASE
      outs == SelectSeq(moves, leavesBase)
  IN IF Includes(g.currentRolls, 6) /\ Len(outs) > 0 THEN outs[1] ELSE moves[1]

bestMove(g, moves) == bestMoveCore(g, moves)

makeComputerMove(g, rolls) ==
  IF g.gameOver THEN g
  ELSE
    LET g1 == [g EXCEPT !.originalRolls = rolls,
                        !.currentRolls = rolls,
                        !.rolledValue = rolls]
        moves == possibleMoves(g1)
        \* the enumeration leaves game.diceValue at the last roll tried
        g2 == [g1 EXCEPT !.diceValue = rolls[Len(rolls)]]
    IN IF Len(moves) = 0 THEN nextTurn(g2)
       ELSE
         LET best == bestMove(g2, moves)
             r == g2.currentRolls[best[1] + 1]
             g3 == moveToken([g2 EXCEPT !.diceValue = r], best[2])
             g4 == [g3 EXCEPT !.currentRolls = Splice(@, best[1])]
         IN IF r = 6 /\ Len(g4.currentRolls) > 0
              THEN scheduleAI(g4)
              ELSE nextTurn(g4)

\* ------------------------------------------------------------------------
\* GameService (src/services/gameService.js)
\* ------------------------------------------------------------------------
\* error messages thrown by the service; NoError is a normal return
NoError == "ok"
ErrPlayerNotFound == "Player not found in game"
ErrNotYourTurn == "Not your turn"
ErrTokenNotFound == "Token not found"
ErrInvalidRoll == "Invalid roll value"
ErrInvalidMove == "Invalid move"
ErrPlayerIndex == "Player with index not found"
ErrGameFull == "Game is already full"
ErrGameNotExist == "Game does not exist"
ErrGameNotFound == "Game not found"

\* the id createGame gives the game (uuidv4().slice(0, 6))
GameId == "g1"

\* players.find / players.findIndex on a field: 1-based index, 0 when absent
findPlayerBy(players, field, v) ==
  IF \E i \in DOMAIN players : players[i][field] = v
    THEN CHOOSE i \in DOMAIN players :
           players[i][field] = v
           /\ \A j \in DOMAIN players : players[j][field] = v => i <= j
    ELSE 0

\* a seat that has no pending eviction timer (disconnectTimer unset or null)
NoTimer == "none"
\* the id initializeGame gives a restored seat (null)
NullId == "null"

\* saveGameState: what the file of the game holds afterwards; per seat only
\* playerId, playerIndex and colors are written
snapshot(g) ==
  [players |-> [i \in DOMAIN g.players |->
                  [playerId |-> g.players[i].playerId,
                   playerIndex |-> g.players[i].playerIndex,
                   colors |-> g.players[i].colors]],
   currentPlayer |-> g.currentPlayer,
   originalRolls |-> g.originalRolls,
   currentRolls |-> g.currentRolls,
   rolledValue |-> g.rolledValue,
   diceValue |-> g.diceValue,
   gameStarted |-> g.gameStarted,
   tokens |-> g.tokens,
   winners |-> g.winners,
   gameOver |-> g.gameOver,
   vsComputer |-> g.vsComputer]

\* game.lastActivity = Date.now(): the eviction timers that are pending were
\* started before this write
Aged(timers) == [i \in DOMAIN timers |-> [timers[i] EXCEPT !.old = TRUE]]

saveGameState(g) ==
  IF g.registered THEN [g EXCEPT !.saved = snapshot(g)] ELSE g

\* a service call that ends with saveGameState when it returns normally
thenSave(res) ==
  IF res.err = NoError THEN [res EXCEPT !.game = saveGameState(@)] ELSE res

createGame(socketId, vsComputer, playerId) ==
  LET creator == [playerId |-> playerId, id |-> socketId, playerIndex |-> 0,
                  colors |-> <<"red", "yellow">>,
                  disconnected |-> FALSE, disconnectTimer |-> NoTimer]
      ai == [playerId |-> "AI", id |-> "AI", playerIndex |-> 1,
             colors |-> <<"green", "blue">>,
             disconnected |-> FALSE, disconnectTimer |-> NoTimer]
      g == [id |-> GameId,
            players |-> IF vsComputer THEN <<creator, ai>> ELSE <<creator>>,
            currentPlayer |-> 0,
            originalRolls |-> <<>>,
            currentRolls |-> <<>>,
            rolledValue |-> <<>>,
            diceValue |-> 0,
            gameStarted |-> vsComputer,
            tokens |-> initializeTokens,
            winners |-> <<>>,
            gameOver |-> FALSE,
            vsComputer |-> vsComputer,
            \* lastActivity, as what the sweep reads of it: whether
            \* now - lastActivity exceeds the staleness threshold
            stale |-> FALSE,
            \* this.games[id] holds the game
            registered |-> TRUE,
            \* the socket ids that this.playerSockets maps to this game
            playerSockets |-> {socketId},
            \* pending setTimeout callbacks: computer moves, and evictions
            \* in the order they were started, as [socketId, gen, old]
            \* (the socket id and the game object the callback closes
            \* over, and whether lastActivity was written since)
            aiTimers |-> 0,
            disconnectTimers |-> <<>>,
            \* the seats (id, playerId) of the game objects that
            \* initializeGame has replaced; the object in this.games is
            \* generation Len(detached) + 1
            detached |-> <<>>,
            \* contents of the file of the game
            saved |-> <<>>]
  IN saveGameState(g)

joinGameCore(g, socketId, playerId) ==
  LET existing == findPlayerBy(g.players, "playerId", playerId) IN
  IF existing # 0
    THEN [game |-> [g EXCEPT !.players[existing].id = socketId,
                             !.playerSockets = @ \cup {socketId}],
          err |-> NoError]
  ELSE IF Len(g.players) >= 2
    THEN [game |-> g, err |-> ErrGameFull]
  ELSE [game |-> saveGameState([g EXCEPT
                    !.players = Append(@, [playerId |-> playerId,
                                           id |-> socketId,
                                           playerIndex |-> 1,
                                           colors |-> <<"green", "blue">>,
                                           disconnected |-> FALSE,
                                           disconnectTimer |-> NoTimer]),
                    !.playerSockets = @ \cup {socketId},
                    !.stale = FALSE,
                    !.disconnectTimers = Aged(@),
                    !.gameStarted = TRUE]),
        err |-> NoError]

\* variant: no reconnect short-circuit, every join asks for a free seat
joinGameNoRebind(g, socketId, playerId) ==
  IF Len(g.players) >= 2
    THEN [game |-> g, err |-> ErrGameFull]
  ELSE [game |-> [g EXCEPT
                    !.players = Append(@, [playerId |-> playerId,
                                           id |-> socketId,
                                           playerIndex |-> 1,
                                           colors |-> <<"green", "blue">>,
                                           disconnected |-> FALSE,
                                           disconnectTimer |-> NoTimer]),
                    !.playerSockets = @ \cup {socketId},
                    !.stale = FALSE,
                    !.gameStarted = TRUE],
        err |-> NoError]

joinGame(g, socketId, playerId) == joinGameCore(g, socketId, playerId)

\* joinGame as the service receives it, with the id of the game to join:
\* this.games[gameId] is g when gameId is g's id and g is registered, and
\* undefined otherwise
joinGameById(g, socketId, gameId, playerId) ==
  IF gameId # g.id \/ ~g.registered THEN [game |-> g, err |-> ErrGameNotExist]
  ELSE joinGame(g, socketId, playerId)

rollDiceCore(g, playerId, rolls) ==
  LET p == findPlayerBy(g.players, "playerId", playerId) IN
  IF p = 0 THEN [game |-> g, err |-> ErrPlayerNotFound]
  ELSE IF g.players[p].playerIndex # g.currentPlayer
    THEN [game |-> [g EXCEPT !.rolledValue = <<>>], err |-> ErrNotYourTurn]
  ELSE
    LET g1 == [g EXCEPT !.originalRolls = rolls,
                        !.currentRolls = rolls,
                        !.rolledValue = rolls]
        hasValidMove ==
          \E i \in DOMAIN rolls :
            checkForValidMoves([g1 EXCEPT !.diceValue = rolls[i]],
                               g.players[p].playerIndex)
        g2 == [g1 EXCEPT !.diceValue = 0]
    IN IF ~hasValidMove
         THEN LET g3 == nextTurn(g2) IN
              [game |-> IF g3.vsComputer
                           /\ g3.players[g3.currentPlayer + 1].id = "AI"
                          THEN scheduleAI(g3) ELSE g3,
               err |-> NoError]
         ELSE [game |-> g2, err |-> NoError]

rollDice(g, playerId, rolls) ==
  IF ~g.registered THEN [game |-> g, err |-> ErrGameNotFound]
  ELSE thenSave(rollDiceCore(g, playerId, rolls))

playRollCore(g, socketId, tokenId, rolledValue) ==
  IF tokenId \notin TokenIds THEN [game |-> g, err |-> ErrTokenNotFound]
  ELSE IF findPlayerBy(g.players, "id", socketId) = 0
    THEN [game |-> g, err |-> ErrPlayerNotFound]
  ELSE
    LET idx == FindIndex(g.currentRolls, rolledValue) IN
    IF idx < 0 THEN [game |-> g, err |-> ErrInvalidRoll]
    ELSE
      LET g1 == [g EXCEPT !.diceValue = rolledValue] IN
      IF ~isValidMove(g1, tokenId) THEN [game |-> g1, err |-> ErrInvalidMove]
      ELSE
        LET g2 == moveToken(g1, tokenId)
            g3 == [g2 EXCEPT !.currentRolls = Splice(@, idx)]
            g4 == IF Len(g3.currentRolls) = 0
                     \/ ~checkForValidMoves(g3, g3.currentPlayer)
                    THEN nextTurn(g3) ELSE g3
            g5 == IF g4.vsComputer /\ g4.currentPlayer = 1
                    THEN scheduleAI(g4) ELSE g4
        IN [game |-> g5, err |-> NoError]

\* variant: the die is removed from currentRolls before the move is validated
playRollSpliceFirst(g, socketId, tokenId, rolledValue) ==
  LET r == playRollCore(g, socketId, tokenId, rolledValue) IN
  IF r.err = ErrInvalidMove
    THEN [r EXCEPT !.game.currentRolls =
                     Splice(@, FindIndex(@, rolledValue))]
    ELSE r

\* variant: a played face is removed from currentRolls wherever it occurs
playRollRemoveAll(g, socketId, tokenId, rolledValue) ==
  LET r == playRollCore(g, socketId, tokenId, rolledValue) IN
  IF r.err = NoError
    THEN [r EXCEPT !.game.currentRolls =
                     SelectSeq(@, LAMBDA x : x # rolledValue)]
    ELSE r

playRoll(g, socketId, tokenId, rolledValue) ==
  IF ~g.registered THEN [game |-> g, err |-> ErrGameNotFound]
  ELSE thenSave(playRollCore(g, socketId, tokenId, rolledValue))

skipTurnCore(g, socketId) ==
  LET pIdx == findPlayerBy(g.players, "id", socketId) - 1 IN
  \* if (!pIdx): true exactly for the array index 0
  IF pIdx = 0 THEN [game |-> g, err |-> ErrPlayerIndex]
  ELSE IF pIdx # g.currentPlayer THEN [game |-> g, err |-> ErrNotYourTurn]
  ELSE
    LET g1 == nextTurn(g)
        g2 == IF g1.vsComputer /\ g1.currentPlayer = 1
                THEN scheduleAI(g1) ELSE g1
    IN [game |-> g2, err |-> NoError]

skipTurn(g, socketId) ==
  IF ~g.registered THEN [game |-> g, err |-> ErrGameNotFound]
  ELSE thenSave(skipTurnCore(g, socketId))

\* ------------------------------------------------------------------------
\* Client view (src/services/gameService.js:488-523)
\* ------------------------------------------------------------------------
ErrTypeError == "TypeError"

\* isClickable of token k in the view: the seat the view is sent to is no
\* input, the colours are those of the seat on turn
isClickable(g, k) ==
  /\ ~g.gameOver
  /\ Includes(g.players[g.currentPlayer + 1].colors, ToLowerCase(ColorOf(k)))
  /\ \E i \in DOMAIN g.currentRolls :
       isValidMove([g EXCEPT !.diceValue = g.currentRolls[i]], k)

\* game.diceValue after the view is built: some() stops at the first face
\* that is valid for the token, and the last token of an allowed colour is
\* the last to write
diceValueAfterView(g) ==
  LET allowed == {k \in TokenIds :
                    Includes(g.players[g.currentPlayer + 1].colors,
                             ToLowerCase(ColorOf(k)))}
      k == CHOOSE x \in allowed : \A y \in allowed : y <= x
      valid == {i \in DOMAIN g.currentRolls :
                  isValidMove([g EXCEPT !.diceValue = g.currentRolls[i]], k)}
  IN IF g.gameOver \/ allowed = {} \/ Len(g.currentRolls) = 0 THEN g.diceValue
     ELSE IF valid = {} THEN g.currentRolls[Len(g.currentRolls)]
     ELSE g.currentRolls[CHOOSE i \in valid : \A j \in valid : i <= j]

\* the view, as the set of tokens it marks clickable
buildGameState(g) ==
  IF ~g.registered THEN [game |-> g, err |-> ErrGameNotFound, clickable |-> {}]
  ELSE IF g.currentPlayer + 1 \notin DOMAIN g.players
    THEN [game |-> g, err |-> ErrTypeError, clickable |-> {}]
  ELSE [game |-> [g EXCEPT !.diceValue = diceValueAfterView(g)],
        err |-> NoError,
        clickable |-> {k \in TokenIds : isClickable(g, k)}]

\* ------------------------------------------------------------------------
\* Connections (src/services/gameService.js:72-120, 388-480)
\* ------------------------------------------------------------------------
ErrNotPartOfGame == "Player was not part of this game"

\* the generation of the game object that this.games holds
Gen(g) == Len(g.detached) + 1

\* array.filter(p => p.id !== socketId)
WithoutSeat(players, socketId) == SelectSeq(players, LAMBDA p : p.id # socketId)

handleDisconnectCore(g, socketId) ==
  IF socketId \notin g.playerSockets \/ ~g.registered THEN g
  ELSE
    LET g1 == [g EXCEPT !.playerSockets = @ \ {socketId}]
        p == findPlayerBy(g.players, "id", socketId)
    IN IF p = 0 THEN g1
       ELSE [g1 EXCEPT !.players[p].disconnected = TRUE,
                       !.players[p].disconnectTimer = socketId,
                       !.disconnectTimers =
                          Append(@, [socketId |-> socketId, gen |-> Gen(g),
                                     old |-> FALSE])]

\* variant: a registered socket that closes and that no seat holds any more
\* marks the first seat of its game
handleDisconnectMarksSeat(g, socketId) ==
  LET h == handleDisconnectCore(g, socketId) IN
  IF /\ socketId \in g.playerSockets
     /\ g.registered
     /\ findPlayerBy(g.players, "id", socketId) = 0
     /\ Len(g.players) > 0
    THEN [h EXCEPT !.players[1].disconnected = TRUE,
                   !.players[1].disconnectTimer = socketId,
                   !.disconnectTimers =
                      Append(@, [socketId |-> socketId, gen |-> Gen(g),
                                 old |-> FALSE])]
    ELSE h

\* variant: a socket that closes takes the faces of the turn with it
handleDisconnectAbortsTurn(g, socketId) ==
  [handleDisconnectCore(g, socketId) EXCEPT !.currentRolls = <<>>]

handleDisconnect(g, socketId) == handleDisconnectCore(g, socketId)

\* the callback of the eviction timer that is due first (all run for one
\* hour, so they come due in the order they were started)
disconnectTimeoutCore(g) ==
  LET t == Head(g.disconnectTimers)
      g1 == [g EXCEPT !.disconnectTimers = Tail(@)] IN
  IF t.gen = Gen(g)
    THEN LET players == WithoutSeat(g.players, t.socketId)
             hasHumanPlayers == \E i \in DOMAIN players : players[i].id # "AI"
         IN [g1 EXCEPT !.players = players,
                       !.registered = @ /\ hasHumanPlayers]
    ELSE \* the callback closes over a game object that initializeGame has
         \* replaced, and deletes this.games[gameId] by id
         LET players == WithoutSeat(g.detached[t.gen], t.socketId)
             hasHumanPlayers == \E i \in DOMAIN players : players[i].id # "AI"
         IN [g1 EXCEPT !.detached[t.gen] = players,
                       !.registered = @ /\ hasHumanPlayers]

disconnectTimeout(g) == disconnectTimeoutCore(g)

\* initializeGame: the game is rebuilt from its file and registered; the
\* object it replaces lives on in the callbacks that closed over it
initializeGame(g) ==
  [g EXCEPT
     !.players = [i \in DOMAIN g.saved.players |->
                    [playerId |-> g.saved.players[i].playerId,
                     id |-> NullId,
                     playerIndex |-> g.saved.players[i].playerIndex,
                     colors |-> g.saved.players[i].colors,
                     disconnected |-> TRUE,
                     disconnectTimer |-> NoTimer]],
     !.currentPlayer = g.saved.currentPlayer,
     !.originalRolls = g.saved.originalRolls,
     !.currentRolls = g.saved.currentRolls,
     !.rolledValue = g.saved.rolledValue,
     !.diceValue = g.saved.diceValue,
     !.gameStarted = g.saved.gameStarted,
     !.tokens = g.saved.tokens,
     !.winners = g.saved.winners,
     !.gameOver = g.saved.gameOver,
     !.vsComputer = g.saved.vsComputer,
     !.stale = FALSE,
     !.disconnectTimers = Aged(@),
     !.registered = TRUE,
     !.aiTimers = 0,
     !.detached = Append(@, [i \in DOMAIN g.players |->
                                [id |-> g.players[i].id,
                                 playerId |-> g.players[i].playerId]])]

rejoinGameCore(g, socketId, gameId, playerId) ==
  IF gameId # g.id THEN [game |-> g, err |-> ErrNotPartOfGame]
  ELSE
    LET g1 == IF g.registered THEN g ELSE initializeGame(g)
        p == findPlayerBy(g1.players, "playerId", playerId)
    IN IF p = 0 THEN [game |-> g1, err |-> ErrNotPartOfGame]
       ELSE
         LET timer == g1.players[p].disconnectTimer
             g2 == [g1 EXCEPT
                      !.players[p].id = socketId,
                      !.players[p].disconnected = FALSE,
                      !.players[p].disconnectTimer = NoTimer,
                      \* clearTimeout(player.disconnectTimer)
                      !.disconnectTimers =
                         Aged(SelectSeq(@, LAMBDA t :
                                ~(t.socketId = timer /\ t.gen = Gen(g1)))),
                      !.playerSockets = @ \cup {socketId},
                      !.stale = FALSE]
             view == buildGameState(g2)
         IN [game |-> view.game, err |-> view.err]

rejoinGame(g, socketId, gameId, playerId) ==
  rejoinGameCore(g, socketId, gameId, playerId)

cleanupOldGamesCore(g) ==
  IF g.registered /\ g.stale
     /\ \A i \in DOMAIN g.players : g.players[i].disconnected
    THEN [saveGameState(g) EXCEPT !.registered = FALSE]
    ELSE g

cleanupOldGames(g) == cleanupOldGamesCore(g)

\* ------------------------------------------------------------------------
\* State machine
\* ------------------------------------------------------------------------
VARIABLES
  game,   \* the game object held in GameService.games
  last,   \* the last call: operation, error thrown, seat of the caller,
          \* token id passed to playRoll
  ops     \* number of calls so far that returned normally

vars == <<game, last, ops>>

\* Bounds of the exploration
MaxOps == 3

\* Inputs
Identities == {"p0", "p1"}
SocketOf(playerId) == IF playerId = "p0" THEN "s0" ELSE "s1"
Sockets == {SocketOf(p) : p \in Identities}
DieFaces == 1..6
\* the two dice of a roll, as [v1, v2]
RollInputs ==
  {<<6, 6>>, <<6, 4>>, <<4, 6>>, <<3, 5>>, <<1, 6>>, <<4, 4>>}
\* token ids a client sends: RED-0, RED-1, GREEN-0, YELLOW-0, BLUE-0 and an
\* id that names no token
UnknownToken == 0
TokenInputs == {1, 2, 5, 9, 13, UnknownToken}

\* faces a client sends with playRoll: every face of currentRolls and one
\* face that is not in currentRolls (all absent faces throw alike)
FaceInputs(g) ==
  {g.currentRolls[i] : i \in DOMAIN g.currentRolls}
    \cup {CHOOSE f \in DieFaces : ~Includes(g.currentRolls, f)}

\* A game in progress is replayed from the new game with moveToken: every
\* entry <<k, face>> is one legal move of token k with that face.
RECURSIVE Replay(_, _)
Replay(g, moves) ==
  IF Len(moves) = 0 THEN g
  ELSE LET h == moveToken([g EXCEPT !.diceValue = moves[1][2]], moves[1][1])
       IN \* a refused move leaves the game as it was
          IF h.tokens = g.tokens THEN Replay(g, Tail(moves))
          ELSE Replay(h, Tail(moves))

Sixes(k, n) == [i \in 1..n |-> <<k, 6>>]

\* Positions of games in progress: the tokens named are on the board, all
\* others in base.
SavedGames ==
  {<<>>,                                               \* the new game
   Sixes(1, 2) \o <<<<1, 3>>, <<5, 6>>>>,              \* RED-0 at 10, GREEN-0 at 1
   Sixes(1, 9) \o <<<<1, 1>>>>,                        \* RED-0 at 50
   Sixes(1, 9) \o <<<<1, 3>>>>,                        \* RED-0 at 52
   Sixes(1, 10) \o <<<<1, 2>>>>,                       \* RED-0 at 57
   Sixes(1, 10) \o <<<<1, 2>>, <<1, 1>>>>,            \* RED-0 completed
   Sixes(5, 10) \o <<<<5, 2>>, <<5, 1>>>>}            \* GREEN-0 completed

Init ==
  /\ \E vsComputer \in BOOLEAN, moves \in SavedGames :
       LET g0 == createGame("s0", vsComputer, "p0")
           g1 == IF moves = <<>> \/ vsComputer THEN g0
                 ELSE joinGame(g0, "s1", "p1").game
       IN game = [Replay(g1, moves) EXCEPT !.diceValue = 0]
  /\ last = [op |-> "createGame", err |-> NoError, seat |-> 0,
             token |-> UnknownToken]
  /\ ops = 0

\* playerIndex of the seat a socket / an identity is bound to, -1 if none
SeatOfSocket(g, socketId) ==
  LET p == findPlayerBy(g.players, "id", socketId) IN
  IF p = 0 THEN -1 ELSE g.players[p].playerIndex

SeatOfIdentity(g, playerId) ==
  LET p == findPlayerBy(g.players, "playerId", playerId) IN
  IF p = 0 THEN -1 ELSE g.players[p].playerIndex

\* a call that throws leaves ops alone, a call that returns counts
Return(res, op, seat, token) ==
  /\ ops < MaxOps
  /\ game' = res.game
  /\ last' = [op |-> op, err |-> res.err, seat |-> seat, token |-> token]
  /\ ops' = IF res.err = NoError THEN ops + 1 ELSE ops

JoinGame(playerId) ==
  Return(joinGame(game, SocketOf(playerId), playerId), "joinGame",
         SeatOfIdentity(joinGame(game, SocketOf(playerId), playerId).game,
                        playerId),
         UnknownToken)

RollDice(playerId, rolls) ==
  Return(rollDice(game, playerId, rolls), "rollDice",
         SeatOfIdentity(game, playerId), UnknownToken)

PlayRoll(socketId, tokenId, rolledValue) ==
  Return(playRoll(game, socketId, tokenId, rolledValue), "playRoll",
         SeatOfSocket(game, socketId), tokenId)

SkipTurn(socketId) ==
  Return(skipTurn(game, socketId), "skipTurn",
         SeatOfSocket(game, socketId), UnknownToken)

\* a pending setTimeout callback fires
AITimerFires(rolls) ==
  /\ game.aiTimers > 0
  /\ Return([game |-> makeComputerMove([game EXCEPT !.aiTimers = @ - 1], rolls),
             err |-> NoError],
            "makeComputerMove", game.currentPlayer, UnknownToken)

Next ==
  \/ \E p \in Identities : JoinGame(p)
  \/ \E p \in Identities, rolls \in RollInputs : RollDice(p, rolls)
  \/ \E s \in Sockets, t \in TokenInputs, f \in FaceInputs(game) :
       PlayRoll(s, t, f)
  \/ \E s \in Sockets : SkipTurn(s)
  \/ \E rolls \in RollInputs : AITimerFires(rolls)

Spec == Init /\ [][Next]_vars

\* Games in progress in which tokens of different colours are near each
\* other on the track.
CaptureGames ==
  {Sixes(5, 7) \o <<<<5, 3>>>>,                        \* GREEN-0 at 40
   Sixes(1, 2) \o <<<<1, 3>>, <<5, 6>>, <<5, 2>>>>,    \* RED-0 at 10, GREEN-0 at 3
   Sixes(9, 2) \o <<<<9, 3>>, <<5, 6>>>>,              \* YELLOW-0 at 10, GREEN-0 at 1
   Sixes(6, 2) \o <<<<6, 1>>, <<5, 6>>>>,              \* GREEN-1 at 8, GREEN-0 at 1
   Sixes(9, 6) \o <<<<1, 6>>>>}                        \* YELLOW-0 at 31, RED-0 at 1

InitCapture ==
  /\ \E vsComputer \in BOOLEAN, moves \in CaptureGames :
       LET g0 == createGame("s0", vsComputer, "p0")
           g1 == IF vsComputer THEN g0 ELSE joinGame(g0, "s1", "p1").game
       IN game = [Replay(g1, moves) EXCEPT !.diceValue = 0]
  /\ last = [op |-> "createGame", err |-> NoError, seat |-> 0,
             token |-> UnknownToken]
  /\ ops = 0

SpecCapture == InitCapture /\ [][Next]_vars

\* the seat that controls a colour: createGame gives seat 0 red and yellow,
\* joinGame (or the computer seat) gives seat 1 green and blue
SeatOfColor(c) == IF c \in {"RED", "YELLOW"} THEN 0 ELSE 1

\* token k brought from base to the centre: steps 1, 55, 57, 58
Finished(k) == Sixes(k, 10) \o <<<<k, 2>>, <<k, 1>>>>

\* Games near their end: three tokens of a colour completed, the fourth at
\* steps 57.
EndGames ==
  {Finished(2) \o Finished(3) \o Finished(4) \o Sixes(1, 10) \o <<<<1, 2>>>>,
   Finished(6) \o Finished(7) \o Finished(8) \o Sixes(5, 10) \o <<<<5, 2>>>>}

\* who sits at the table: the creator alone (nobody has joined yet), the
\* creator and a second human, or the creator and the computer
Seatings == {"alone", "joined", "computer"}

InitEndgame ==
  /\ \E seating \in Seatings, moves \in EndGames :
       LET g0 == createGame("s0", seating = "computer", "p0")
           g1 == IF seating = "joined" THEN joinGame(g0, "s1", "p1").game
                 ELSE g0
       IN \* a creator who is alone at the table has moved its own colours
          /\ seating = "alone"
               => \A i \in DOMAIN moves :
                    SeatOfColor(ColorOf(moves[i][1])) = 0
          /\ game = [Replay(g1, moves) EXCEPT !.diceValue = 0]
  /\ last = [op |-> "createGame", err |-> NoError, seat |-> 0,
             token |-> UnknownToken]
  /\ ops = 0

SpecEndgame == InitEndgame /\ [][Next]_vars

\* Joining and reconnecting: clients name the game they join, connect from a
\* new socket, and a third identity asks for a seat.
GameIdInputs == {GameId, "g2"}
LobbySockets == Sockets \cup {"s2"}
LobbyIdentities == Identities \cup {"p2"}

InitLobby ==
  /\ \E vsComputer \in BOOLEAN :
       game = createGame("s0", vsComputer, "p0")
  /\ last = [op |-> "createGame", err |-> NoError, seat |-> 0,
             token |-> UnknownToken]
  /\ ops = 0

JoinGameById(socketId, gameId, playerId) ==
  Return(joinGameById(game, socketId, gameId, playerId), "joinGame",
         SeatOfIdentity(joinGameById(game, socketId, gameId, playerId).game,
                        playerId),
         UnknownToken)

NextLobby ==
  \/ \E s \in LobbySockets, gid \in GameIdInputs, p \in LobbyIdentities :
       JoinGameById(s, gid, p)
  \/ \E p \in LobbyIdentities, rolls \in RollInputs : RollDice(p, rolls)
  \/ \E s \in LobbySockets, t \in TokenInputs, f \in FaceInputs(game) :
       PlayRoll(s, t, f)
  \/ \E s \in LobbySockets : SkipTurn(s)
  \/ \E rolls \in RollInputs : AITimerFires(rolls)

SpecLobby == InitLobby /\ [][NextLobby]_vars

\* Connections: sockets close, eviction timers run out, time passes, the
\* sweep runs, and clients come back on new sockets.
ConnSockets == LobbySockets \cup {"s3"}

\* socket.io never issues an id twice: a new connection has an id that no
\* seat, no registration and no pending callback knows
FreshSocket(g, s) ==
  /\ s \notin g.playerSockets
  /\ \A i \in DOMAIN g.players : g.players[i].id # s
  /\ \A i \in DOMAIN g.disconnectTimers : g.disconnectTimers[i].socketId # s
  /\ \A n \in DOMAIN g.detached :
       \A i \in DOMAIN g.detached[n] : g.detached[n][i].id # s

\* now - lastActivity passes the staleness threshold of 42 hours; a timer
\* of one hour that was started before lastActivity was written has run out
\* by then
passTime(g) == [g EXCEPT !.stale = TRUE]
CanPassTime(g) ==
  /\ ~g.stale
  /\ \A i \in DOMAIN g.disconnectTimers : ~g.disconnectTimers[i].old

\* Histories of a game before the exploration starts: sockets that closed,
\* timers that ran out, time that passed, sweeps, a roll without a move,
\* turns of the computer, a reconnect on a new socket while the old socket
\* is still open
RECURSIVE ReplayConn(_, _)
ReplayConn(g, events) ==
  IF Len(events) = 0 THEN g
  ELSE LET e == events[1]
           h == CASE e[1] = "disconnect" -> handleDisconnect(g, e[2])
                  [] e[1] = "timeout" -> disconnectTimeout(g)
                  [] e[1] = "passTime" -> passTime(g)
                  [] e[1] = "sweep" -> cleanupOldGames(g)
                  [] e[1] = "roll" -> rollDice(g, e[2], e[3]).game
                  [] e[1] = "computer" ->
                       makeComputerMove([g EXCEPT !.aiTimers = @ - 1], e[2])
                  [] e[1] = "rejoin" -> rejoinGame(g, e[2], g.id, e[3]).game
       IN ReplayConn(h, Tail(events))

ConnHistories ==
  {<<>>,
   <<<<"roll", "p0", <<3, 5>>>>>>,
   <<<<"roll", "p0", <<6, 4>>>>>>,
   <<<<"roll", "p0", <<3, 5>>>>, <<"computer", <<6, 6>>>>, <<"computer", <<3, 5>>>>,
     <<"computer", <<3, 5>>>>, <<"computer", <<3, 5>>>>,
     <<"disconnect", "s0">>, <<"timeout">>>>,
   <<<<"rejoin", "s2", "p0">>>>,
   <<<<"disconnect", "s0">>>>,
   <<<<"disconnect", "s0">>, <<"timeout">>>>,
   <<<<"disconnect", "s0">>, <<"disconnect", "s1">>>>,
   <<<<"disconnect", "s0">>, <<"disconnect", "s1">>, <<"passTime">>,
     <<"sweep">>>>}

InitConn ==
  /\ \E vsComputer \in BOOLEAN, events \in ConnHistories :
       LET g0 == createGame("s0", vsComputer, "p0")
           g1 == IF vsComputer THEN g0 ELSE joinGame(g0, "s1", "p1").game
       IN \* the computer plays in games against the computer only, and its
          \* turn is not left pending
          /\ (\E i \in DOMAIN events : events[i][1] = "computer") => vsComputer
          /\ ReplayConn(g1, events).aiTimers = 0
          /\ game = ReplayConn(g1, events)
  /\ last = [op |-> "createGame", err |-> NoError, seat |-> 0,
             token |-> UnknownToken]
  /\ ops = 0

RejoinGame(socketId, gameId, playerId) ==
  /\ FreshSocket(game, socketId)
  /\ Return(rejoinGame(game, socketId, gameId, playerId), "rejoinGame",
            SeatOfIdentity(rejoinGame(game, socketId, gameId, playerId).game,
                           playerId),
            UnknownToken)

JoinGameFresh(socketId, gameId, playerId) ==
  /\ FreshSocket(game, socketId)
  /\ JoinGameById(socketId, gameId, playerId)

HandleDisconnect(socketId) ==
  Return([game |-> handleDisconnect(game, socketId), err |-> NoError],
         "handleDisconnect", SeatOfSocket(game, socketId), UnknownToken)

DisconnectTimerFires ==
  /\ Len(game.disconnectTimers) > 0
  /\ Return([game |-> disconnectTimeout(game), err |-> NoError],
            "disconnectTimeout", -1, UnknownToken)

PassTime ==
  /\ CanPassTime(game)
  /\ Return([game |-> passTime(game), err |-> NoError],
            "passTime", -1, UnknownToken)

CleanupOldGames ==
  Return([game |-> cleanupOldGames(game), err |-> NoError],
         "cleanupOldGames", -1, UnknownToken)

NextConn ==
  \/ \E s \in ConnSockets, gid \in GameIdInputs, p \in LobbyIdentities :
       JoinGameFresh(s, gid, p)
  \/ \E s \in ConnSockets, gid \in GameIdInputs, p \in LobbyIdentities :
       RejoinGame(s, gid, p)
  \/ \E s \in ConnSockets : HandleDisconnect(s)
  \/ DisconnectTimerFires
  \/ PassTime
  \/ CleanupOldGames

SpecConn == InitConn /\ [][NextConn]_vars

\* the seat of the computer player in a game against the computer
ComputerSeat == 1

\* The computer's turn while the human is silent: the human has rolled
\* without a valid move, the turn has passed to the computer seat, and from
\* then on only the pending setTimeout callbacks run, each of which fires in
\* the end.
InitAI ==
  /\ \E moves \in SavedGames, rolls \in RollInputs :
       LET g == [Replay(createGame("s0", TRUE, "p0"), moves)
                   EXCEPT !.diceValue = 0]
           r == rollDice(g, "p0", rolls)
       IN /\ r.game.currentPlayer = ComputerSeat
          /\ game = r.game
  /\ last = [op |-> "rollDice", err |-> NoError, seat |-> 0,
             token |-> UnknownToken]
  /\ ops = 0

NextAI == \E rolls \in RollInputs : AITimerFires(rolls)

SpecAI == InitAI /\ [][NextAI]_vars /\ WF_vars(NextAI)

\* ------------------------------------------------------------------------
\* Properties
\* ------------------------------------------------------------------------
Steps(k) == game.tokens[k].steps
FINISH == TRACK_LENGTH + HOME_COLUMN_LENGTH

\* hasAnyLegalMove(game, seat, faces): some token of the seat's colours is a
\* valid move with some face of faces
hasAnyLegalMove(g, seat, faces) ==
  \E i \in DOMAIN faces :
    checkForValidMoves([g EXCEPT !.diceValue = faces[i]], seat)

\* C1: a playRoll call from a seat whose index differs from currentPlayer
\* never moves a token and never consumes a face of currentRolls.
C1_OutOfTurnPlayChangesNothing ==
  [][(last'.op = "playRoll" /\ last'.seat # game.currentPlayer)
       => (game'.tokens = game.tokens
           /\ game'.currentRolls = game.currentRolls)]_vars

\* C2: after a successful playRoll by the seat on turn with a token of its
\* own colours (two seats present), the turn passes to the other seat if and only if no face remains or no
\* token of the seat is a valid move with a remaining face.
C2_TurnPassesIffNoMoveLeft ==
  [][(/\ last'.op = "playRoll"
      /\ last'.err = NoError
      /\ last'.seat = game.currentPlayer
      /\ Len(game.players) = 2
      /\ Includes(game.players[game.currentPlayer + 1].colors,
                  ToLowerCase(ColorOf(last'.token))))
       => LET s == game.currentPlayer
              rem == Splice(game.currentRolls,
                            FindIndex(game.currentRolls, game'.diceValue))
              moved == [game EXCEPT !.tokens = game'.tokens]
          IN (game'.currentPlayer # s)
               <=> (Len(rem) = 0 \/ ~hasAnyLegalMove(moved, s, rem))]_vars

\* C3: skipTurn by the seat on turn (seat 0 as well as seat 1) succeeds,
\* empties the rolls and hands the turn to the other seat; skipTurn by a
\* seat that is not on turn throws "Not your turn" and changes nothing.
C3_SkipTurnBySeatOnTurn ==
  [][(last'.op = "skipTurn" /\ last'.seat # -1 /\ Len(game.players) = 2)
       => IF last'.seat = game.currentPlayer
            THEN /\ last'.err = NoError
                 /\ game'.currentRolls = <<>>
                 /\ game'.originalRolls = <<>>
                 /\ game'.currentPlayer = 1 - game.currentPlayer
            ELSE /\ last'.err = ErrNotYourTurn
                 /\ game' = game]_vars

\* C4: when the seat on turn rolls and no token of it is a valid move with
\* either face, the two faces stay in rolledValue for display, currentRolls
\* is emptied and currentPlayer becomes the other seat in the same call.
C4_RollWithoutMoveAdvances ==
  [][(/\ last'.op = "rollDice"
      /\ last'.err = NoError
      /\ ~hasAnyLegalMove(game, last'.seat, game'.rolledValue))
       => /\ Len(game'.rolledValue) = 2
          /\ game'.currentRolls = <<>>
          /\ game'.currentPlayer # game.currentPlayer]_vars

\* C5: rollDice by a seat that is not on turn throws "Not your turn" and
\* leaves the game as it was, the displayed roll (rolledValue) included.
C5_OutOfTurnRollChangesNothing ==
  [][(/\ last'.op = "rollDice"
      /\ last'.seat # -1
      /\ last'.seat # game.currentPlayer)
       => /\ last'.err = ErrNotYourTurn
          /\ game'.tokens = game.tokens
          /\ game'.currentPlayer = game.currentPlayer
          /\ game'.originalRolls = game.originalRolls
          /\ game'.currentRolls = game.currentRolls
          /\ game'.rolledValue = game.rolledValue]_vars

\* C6: a playRoll that throws "Token not found", "Invalid roll value" or
\* "Invalid move" changes no token, no roll, not the turn, not the winners,
\* not gameOver, and schedules no computer move.
C6_FailedPlayMutatesNothing ==
  [][(/\ last'.op = "playRoll"
      /\ last'.err \in {ErrTokenNotFound, ErrInvalidRoll, ErrInvalidMove})
       => /\ game'.tokens = game.tokens
          /\ game'.currentRolls = game.currentRolls
          /\ game'.originalRolls = game.originalRolls
          /\ game'.currentPlayer = game.currentPlayer
          /\ game'.winners = game.winners
          /\ game'.gameOver = game.gameOver
          /\ game'.aiTimers = game.aiTimers]_vars

\* witness of C6: a playRoll with a face of currentRolls was just refused
\* as "Invalid move" while both dice are still to play
C6_Witness ==
  /\ last.op = "playRoll"
  /\ last.err = ErrInvalidMove
  /\ Len(game.currentRolls) = 2
  /\ Includes(game.currentRolls, game.diceValue)

\* C7: a completed token can never be moved: a playRoll by the seat on turn
\* for a completed token of its colours with a face of currentRolls is
\* refused as "Invalid move", isValidMove being false for it.
C7_CompletedTokenNeverMoved ==
  [][(/\ last'.op = "playRoll"
      /\ last'.err \in {NoError, ErrInvalidMove}
      /\ last'.seat = game.currentPlayer
      /\ Includes(game.players[game.currentPlayer + 1].colors,
                  ToLowerCase(ColorOf(last'.token)))
      /\ game.tokens[last'.token].completed)
       => /\ last'.err = ErrInvalidMove
          /\ ~isValidMove([game EXCEPT !.diceValue = game'.diceValue],
                          last'.token)]_vars

\* every token in base is refused with every face other than 6
BaseNeedsSix(g) ==
  \A k \in TokenIds, f \in DieFaces \ {6} :
    g.tokens[k].steps = 0 => ~isValidMove([g EXCEPT !.diceValue = f], k)

\* C8: a token in base is a valid move only with face 6, whatever else is on
\* the track, and no step takes a token from steps 0 to steps > 0 with a
\* face other than 6.  (The legality part is evaluated in every initial
\* state and in the state after every step that changes a token.)
C8_BaseExitOnlyOnSix ==
  [][/\ ops = 0 => BaseNeedsSix(game)
     /\ game'.tokens # game.tokens => BaseNeedsSix(game')
     /\ \A k \in TokenIds :
          (Steps(k) = 0 /\ game'.tokens[k].steps > 0) => game'.diceValue = 6]_vars

\* witness of C8: playRoll was just refused for a token in base with a face
\* other than 6 while another token of its colour is on the track
C8_Witness ==
  /\ last.op = "playRoll"
  /\ last.err = ErrInvalidMove
  /\ last.token \in TokenIds
  /\ game.tokens[last.token].steps = 0
  /\ game.diceValue # 6
  /\ \E o \in TokenIds : /\ ColorOf(o) = ColorOf(last.token)
                         /\ game.tokens[o].steps > 0
                         /\ ~game.tokens[o].completed

\* the destination of token k with face f holds no other uncompleted token
DestinationFree(g, k, f) ==
  \A o \in TokenIds :
    (o # k /\ ~g.tokens[o].completed)
      => getProjectedGlobalPosition(g.tokens, o, 0)
           # getProjectedGlobalPosition(g.tokens, k, f)

\* C9: for a token on the board (steps >= 1, not completed) with a free
\* destination, a playRoll with a face f of currentRolls succeeds exactly
\* when steps + f <= 58, and then the token's steps become steps + f.
C9_LegalIffWithinFinish ==
  [][(/\ last'.op = "playRoll"
      /\ last'.err \in {NoError, ErrInvalidMove}
      /\ Steps(last'.token) >= 1
      /\ ~game.tokens[last'.token].completed
      /\ DestinationFree(game, last'.token, game'.diceValue))
       => /\ last'.err = NoError <=> Steps(last'.token) + game'.diceValue <= FINISH
          /\ last'.err = NoError
               => game'.tokens[last'.token].steps
                    = Steps(last'.token) + game'.diceValue]_vars

\* C10: no two distinct tokens of one colour that are out of base and not
\* completed stand on the same path position.
C10_NoStackingOfOneColour ==
  \A k, o \in TokenIds :
    (/\ k # o
     /\ ColorOf(k) = ColorOf(o)
     /\ Steps(k) >= 1
     /\ ~game.tokens[k].completed
     /\ ~game.tokens[o].completed)
      => game.tokens[k].position # game.tokens[o].position

\* tokens of a colour other than token k's that stand, out of base and not
\* completed, on the path position pos
OthersAt(g, k, pos) ==
  {o \in TokenIds : /\ ColorOf(o) # ColorOf(k)
                    /\ g.tokens[o].steps >= 1
                    /\ ~g.tokens[o].completed
                    /\ getProjectedGlobalPosition(g.tokens, o, 0) = pos}

\* C11: no successful playRoll, of a token in base or on the board, takes
\* the token to a safe track offset or a home-stretch cell on which a token
\* of another colour stands.
C11_NoMoveOntoOccupiedSafe ==
  [][(last'.op = "playRoll" /\ last'.err = NoError)
       => LET k == last'.token
              dest == getProjectedGlobalPosition(game.tokens, k, game'.diceValue)
          IN (dest \in SAFE_SQUARE_INDICES \/ (dest >= 100 /\ dest < 140))
               => OthersAt(game, k, dest) = {}]_vars

\* tokens of the other seat that stand on the path position pos
OpponentsAt(g, k, pos) ==
  {o \in OthersAt(g, k, pos) : SeatOfColor(ColorOf(o)) # SeatOfColor(ColorOf(k))}

\* C12: a successful playRoll that lands token k on a track offset that is
\* not safe and holds a token of the other seat sends that token to base
\* (steps 0) and gives k its old steps plus the face; a successful playRoll
\* whose destination holds no token of the other seat sends no token to base.
C12_CaptureOnLanding ==
  [][(last'.op = "playRoll" /\ last'.err = NoError)
       => LET k == last'.token
              f == game'.diceValue
              dest == getProjectedGlobalPosition(game.tokens, k, f)
              opp == OpponentsAt(game, k, dest)
          IN /\ (dest \in 0..(TRACK_LENGTH - 1)
                 /\ dest \notin SAFE_SQUARE_INDICES
                 /\ opp # {})
                  => /\ \A o \in opp : game'.tokens[o].steps = 0
                     /\ game'.tokens[k].steps = Steps(k) + f
             /\ opp = {}
                  => \A o \in TokenIds :
                       Steps(o) > 0 => game'.tokens[o].steps > 0]_vars

\* token k stands on a safe track offset (the entry offset of a colour)
OnSafeOffset(g, k) ==
  /\ g.tokens[k].steps >= 1
  /\ g.tokens[k].steps < TRACK_LENGTH
  /\ ~g.tokens[k].completed
  /\ getProjectedGlobalPosition(g.tokens, k, 0) \in SAFE_SQUARE_INDICES

Count(seq, x) == Cardinality({i \in DOMAIN seq : seq[i] = x})

\* C14: a successful playRoll with face f either advances the turn, which
\* empties currentRolls, or leaves currentRolls one element shorter with
\* exactly one occurrence of f removed; in particular <<f, f>> becomes <<f>>.
C14_PlayRemovesOneFace ==
  [][(last'.op = "playRoll" /\ last'.err = NoError)
       => LET f == game'.diceValue IN
          IF game'.originalRolls = <<>>
            THEN game'.currentRolls = <<>>
            ELSE /\ Len(game'.currentRolls) = Len(game.currentRolls) - 1
                 /\ \A x \in DieFaces :
                      Count(game'.currentRolls, x)
                        = Count(game.currentRolls, x) - (IF x = f THEN 1 ELSE 0)
                 /\ game.currentRolls = <<f, f>> => game'.currentRolls = <<f>>]_vars

\* witness of C14: both dice showed the same face, one of them has just been
\* played and the other is still in currentRolls
C14_Witness ==
  /\ last.op = "playRoll"
  /\ last.err = NoError
  /\ game.originalRolls = <<game.diceValue, game.diceValue>>
  /\ game.currentRolls = <<game.diceValue>>

\* every token of the colours seat controls is completed
SeatFinished(g, seat) ==
  \A k \in TokenIds : SeatOfColor(ColorOf(k)) = seat => g.tokens[k].completed

\* C15: a seat is in winners exactly when all tokens of the two colours it
\* controls are completed (so a seat is appended on the very move that
\* completes its last token, and not before).
C15_WinnersAreFinishedSeats ==
  \A seat \in {0, 1} :
    Includes(game.winners, seat) <=> SeatFinished(game, seat)

\* C16: across every step winners has no seat index twice and keeps what it
\* held (it only grows), gameOver is true exactly when winners holds both
\* seat indices 0 and 1, and gameOver turns true exactly on the step on
\* which winners reaches size 2.
C16_WinnersAndGameOver ==
  [][/\ \A i, j \in DOMAIN game'.winners :
          game'.winners[i] = game'.winners[j] => i = j
     /\ Len(game'.winners) >= Len(game.winners)
     /\ SubSeq(game'.winners, 1, Len(game.winners)) = game.winners
     /\ game'.gameOver
          <=> (Includes(game'.winners, 0) /\ Includes(game'.winners, 1))
     /\ (~game.gameOver /\ game'.gameOver)
          <=> (Len(game.winners) < 2 /\ Len(game'.winners) = 2)]_vars

\* C17: a pending computer move that fires while currentPlayer is not the
\* computer seat, or while the game is over, changes nothing: no dice are
\* rolled, no token moves and the turn does not advance.
C17_StaleAITimerIsNoOp ==
  [][(/\ last'.op = "makeComputerMove"
      /\ (game.currentPlayer # ComputerSeat \/ game.gameOver))
       => game' = [game EXCEPT !.aiTimers = @ - 1]]_vars

\* the game after the move <<i, k>> of possibleMoves is applied: token k
\* moved with the face at index i of currentRolls
afterMove(g, m) == moveToken([g EXCEPT !.diceValue = g.currentRolls[m[1] + 1]], m[2])

\* C18: when the computer seat is on turn and its roll allows a move, the
\* computer plays the first move in enumeration order to which no other
\* move is preferred: a capture if there is one, else a move out of base if
\* there is one, else the move of the token with the greatest steps.
C18_AIChoiceOrder ==
  [][(/\ last'.op = "makeComputerMove"
      /\ game.currentPlayer = ComputerSeat
      /\ ~game.gameOver)
       => LET g1 == [game EXCEPT !.currentRolls = game'.rolledValue,
                                 !.aiTimers = game'.aiTimers]
              moves == possibleMoves(g1)
              \* 2: sends a token back to base, 1: leaves base, 0: other
              rank(m) ==
                IF \E o \in TokenIds : /\ g1.tokens[o].steps > 0
                                       /\ afterMove(g1, m).tokens[o].steps = 0
                  THEN 2
                ELSE IF g1.tokens[m[2]].position = IN_BASE THEN 1
                ELSE 0
              preferred(a, b) ==
                \/ rank(a) > rank(b)
                \/ /\ rank(a) = 0
                   /\ rank(b) = 0
                   /\ g1.tokens[a[2]].steps > g1.tokens[b[2]].steps
              best(i) ==
                /\ \A j \in DOMAIN moves : ~preferred(moves[j], moves[i])
                /\ \A j \in 1..(i - 1) :
                     \E h \in DOMAIN moves : preferred(moves[h], moves[j])
          IN \A i \in DOMAIN moves :
               best(i) => game'.tokens = afterMove(g1, moves[i]).tokens]_vars

\* C19: the computer rolls once per turn.  A computer move that fires while
\* faces of the computer's roll are still unused keeps that roll and, if it
\* moves a token, moves it with one of those faces; and the first move of a
\* computer turn hands the turn over only when the other face of the roll
\* gives the computer seat no valid move.
C19_AIRollsOncePerTurn ==
  [][(/\ last'.op = "makeComputerMove"
      /\ game.currentPlayer = ComputerSeat
      /\ ~game.gameOver)
       => /\ game.currentRolls # <<>>
               => /\ game'.rolledValue = game.rolledValue
                  /\ game'.tokens # game.tokens
                       => Includes(game.currentRolls, game'.diceValue)
          /\ (/\ game.currentRolls = <<>>
              /\ game'.tokens # game.tokens
              /\ game'.currentPlayer # ComputerSeat)
               => ~hasAnyLegalMove(game', ComputerSeat,
                                   Splice(game'.rolledValue,
                                          FindIndex(game'.rolledValue,
                                                    game'.diceValue)))]_vars

\* C20: in every reachable game, joinGame with an id that names no game
\* throws "Game does not exist"; with an identity that has no seat, in a
\* game of two seats, it throws "Game is already full" and changes nothing;
\* with an identity that has a seat it returns normally, binds that seat to
\* the given socket and keeps the number of seats and every seat's identity,
\* index and colours.
C20_JoinGameOutcomes ==
  \A s \in LobbySockets, gid \in GameIdInputs, p \in LobbyIdentities :
    LET r == joinGameById(game, s, gid, p)
        seat == findPlayerBy(game.players, "playerId", p)
    IN /\ gid # game.id => (r.err = ErrGameNotExist /\ r.game = game)
       /\ (gid = game.id /\ seat = 0 /\ Len(game.players) = 2)
            => (r.err = ErrGameFull /\ r.game = game)
       /\ (gid = game.id /\ seat # 0)
            => /\ r.err = NoError
               /\ r.game.players[seat].id = s
               /\ Len(r.game.players) = Len(game.players)
               /\ \A i \in DOMAIN game.players :
                    /\ r.game.players[i].playerId = game.players[i].playerId
                    /\ r.game.players[i].playerIndex = game.players[i].playerIndex
                    /\ r.game.players[i].colors = game.players[i].colors
                    /\ i # seat => r.game.players[i].id = game.players[i].id

\* witness of C20: two calls have returned; the second seat joined a game of
\* two humans from socket s1 and has just been bound again, to socket s2
C20_Witness ==
  /\ last.op = "joinGame"
  /\ last.err = NoError
  /\ last.seat = 1
  /\ ops = 2
  /\ ~game.vsComputer
  /\ Len(game.players) = 2
  /\ game.players[1].id = "s0"
  /\ game.players[2].id = "s2"
  /\ game.playerSockets = {"s0", "s1", "s2"}

\* the seat of identity p stays in the game and the game stays registered
\* while the eviction timers that are pending in g run out
RECURSIVE SurvivesTimers(_, _)
SurvivesTimers(g, p) ==
  IF Len(g.disconnectTimers) = 0 THEN TRUE
  ELSE LET h == disconnectTimeout(g) IN
       /\ findPlayerBy(h.players, "playerId", p) # 0
       /\ h.registered
       /\ SurvivesTimers(h, p)

\* C21: when a disconnected seat reconnects under its identity from a new
\* socket, through rejoinGame or through the rebind path of joinGame, the seat
\* is bound to the new socket and connected, it has no eviction timer, and the
\* timers that are pending at that moment neither remove the seat nor the
\* game when they run out.
C21_ReconnectedSeatIsSafe ==
  \A s \in ConnSockets, p \in LobbyIdentities, path \in {"rejoinGame", "joinGame"} :
    LET g0 == IF path = "rejoinGame" /\ ~game.registered
                THEN initializeGame(game) ELSE game
        q0 == findPlayerBy(g0.players, "playerId", p)
        r == IF path = "rejoinGame" THEN rejoinGame(game, s, GameId, p)
             ELSE joinGameById(game, s, GameId, p)
        q == findPlayerBy(r.game.players, "playerId", p)
    IN (/\ FreshSocket(game, s)
        /\ q0 # 0
        /\ g0.players[q0].disconnected
        /\ r.err = NoError)
       => /\ r.game.players[q].id = s
          /\ s \in r.game.playerSockets
          /\ ~r.game.players[q].disconnected
          /\ r.game.players[q].disconnectTimer = NoTimer
          /\ \A i \in DOMAIN r.game.disconnectTimers :
               ~(/\ r.game.disconnectTimers[i].socketId = g0.players[q0].id
                 /\ r.game.disconnectTimers[i].gen = Gen(r.game))
          /\ SurvivesTimers(r.game, p)

\* C22: when the eviction timer of a seat runs out and the seat has not
\* reconnected, the seat is removed from the game, and the game is removed
\* from the registry exactly when no seat with a human identity remains.
C22_ExpiryEvictsSeat ==
  Len(game.disconnectTimers) > 0 =>
    LET t == Head(game.disconnectTimers)
        h == disconnectTimeout(game)
        \* the seat whose disconnect started the timer, in the game object
        \* the timer closed over
        seats == IF t.gen = Gen(game)
                   THEN [i \in DOMAIN game.players |->
                           [id |-> game.players[i].id,
                            playerId |-> game.players[i].playerId]]
                   ELSE game.detached[t.gen]
        o == findPlayerBy(seats, "id", t.socketId)
        q == findPlayerBy(game.players, "playerId", seats[o].playerId)
        notReconnected ==
          /\ o # 0
          /\ q # 0
          /\ game.players[q].id \in {t.socketId, NullId}
    IN (game.registered /\ notReconnected)
       => /\ findPlayerBy(h.players, "playerId", seats[o].playerId) = 0
          /\ h.registered
               <=> \E i \in DOMAIN h.players : h.players[i].playerId # "AI"

\* C23: the sweep removes a game only if it is stale and every seat is
\* disconnected; a game in which a human seat is bound to an open socket is
\* never removed by the sweep.
C23_SweepSparesConnectedGames ==
  LET h == cleanupOldGames(game)
      connected(i) == /\ game.players[i].playerId # "AI"
                      /\ game.players[i].id \in game.playerSockets
  IN (game.registered /\ ~h.registered)
     => /\ game.stale
        /\ \A i \in DOMAIN game.players : game.players[i].disconnected
        /\ ~\E i \in DOMAIN game.players : connected(i)

\* C30: a game has at most two seats, their indices are distinct, each seat
\* controls two colours, and no colour is controlled by two seats.
C30_SeatsPartitionColours ==
  /\ Len(game.players) <= 2
  /\ \A i, j \in DOMAIN game.players :
       i # j =>
         /\ game.players[i].playerIndex # game.players[j].playerIndex
         /\ \A a \in DOMAIN game.players[i].colors,
               b \in DOMAIN game.players[j].colors :
              game.players[i].colors[a] # game.players[j].colors[b]
  /\ \A i \in DOMAIN game.players :
       /\ Len(game.players[i].colors) = 2
       /\ game.players[i].colors[1] # game.players[i].colors[2]

\* C24: in the view built for a human seat, a token is clickable exactly when the
\* game is not over, the token has a colour of that seat, and a face left in
\* currentRolls makes the move valid; the view of the seat that is not on turn
\* marks no token of the other seat clickable.
C24_ClickableForOwnSeat ==
  \A p \in DOMAIN game.players :
    LET view == buildGameState(game)
        own(k) == Includes(game.players[p].colors, ToLowerCase(ColorOf(k)))
    IN (view.err = NoError /\ game.players[p].playerId # "AI") =>
         \A k \in TokenIds :
           /\ k \in view.clickable
                <=> /\ ~game.gameOver
                    /\ own(k)
                    /\ \E i \in DOMAIN game.currentRolls :
                         isValidMove([game EXCEPT
                                        !.diceValue = game.currentRolls[i]], k)
           /\ (game.players[p].playerIndex # game.currentPlayer /\ ~own(k))
                => k \notin view.clickable

\* C25: every change of a token's steps is an increase, or a reset to 0 of a
\* token that is captured (sent back to base by a token of another colour
\* that moves onto its square in the same step).
C25_StepsChangeByMoveOrCapture ==
  [][\A k \in TokenIds :
       LET before == game.tokens[k]
           after == game'.tokens[k]
           capturedBy(m) == /\ m # k
                            /\ ColorOf(m) # ColorOf(k)
                            /\ game'.tokens[m].steps > game.tokens[m].steps
                            /\ game'.tokens[m].position = before.position
       IN after.steps # before.steps
            => \/ after.steps > before.steps
               \/ /\ after.steps = 0
                  /\ after.position = IN_BASE
                  /\ \E m \in TokenIds : capturedBy(m)]_vars

\* C26: a token is completed exactly when its steps equal the finish value
\* 58, and the steps of every token lie in 0..58.
C26_CompletedIffFinish ==
  \A k \in TokenIds :
    /\ game.tokens[k].completed <=> game.tokens[k].steps = FINISH
    /\ game.tokens[k].steps \in 0..FINISH

\* C27: once a token is completed, no step changes its steps or its position.
C27_CompletedTokenIsFrozen ==
  [][\A k \in TokenIds :
       game.tokens[k].completed
         => /\ game'.tokens[k].steps = game.tokens[k].steps
            /\ game'.tokens[k].position = game.tokens[k].position]_vars

\* C28: the position of a token is a function of its colour and steps: two
\* tokens of one colour with equal steps have equal positions, and the
\* position that moveToken stores for a token on the track or in the home
\* stretch is the position that the legality check projects for it.
C28_PositionIsFunctionOfSteps ==
  /\ \A k, m \in TokenIds :
       (ColorOf(k) = ColorOf(m) /\ game.tokens[k].steps = game.tokens[m].steps)
         => game.tokens[k].position = game.tokens[m].position
  /\ \A k \in TokenIds :
       (game.tokens[k].position # IN_BASE /\ ~game.tokens[k].completed)
         => game.tokens[k].position
              = getProjectedGlobalPosition(game.tokens, k, 0)

\* C29: currentRolls is a sub-multiset of originalRolls, both hold at most two
\* faces of 1..6, and both are empty right after every turn advance (a roll,
\* a play, a skip or a computer move that changes currentPlayer).
C29_RollsWithinOriginal ==
  /\ [](/\ Len(game.currentRolls) <= 2
        /\ Len(game.originalRolls) <= 2
        /\ \A f \in DieFaces :
             Count(game.currentRolls, f) <= Count(game.originalRolls, f)
        /\ \A i \in DOMAIN game.currentRolls : game.currentRolls[i] \in DieFaces
        /\ \A i \in DOMAIN game.originalRolls :
             game.originalRolls[i] \in DieFaces)
  /\ [][(/\ last'.op \in {"rollDice", "playRoll", "skipTurn", "makeComputerMove"}
         /\ game'.currentPlayer # game.currentPlayer)
          => game'.currentRolls = <<>> /\ game'.originalRolls = <<>>]_vars

\* a play has used one of two faces, and a play has passed the turn on
C29_Witness ==
  /\ last.op = "playRoll"
  /\ last.err = NoError
  /\ last.seat # game.currentPlayer
  /\ game.currentRolls = <<>>
  /\ game.originalRolls = <<>>
  /\ Len(game.rolledValue) = 2

\* C31: every turn advance (a roll without a valid move, a play, a skip or a
\* computer move that ends the turn) sets currentPlayer to
\* (currentPlayer + 1) mod 2, so the same seat never has two turns in a row.
C31_TurnAlternates ==
  [][(/\ last'.op \in {"rollDice", "playRoll", "skipTurn", "makeComputerMove"}
      /\ last'.err = NoError
      /\ ~game.gameOver
      \* nextTurn has run: it is what empties the faces of the turn
      /\ game'.currentRolls = <<>>
      /\ game'.originalRolls = <<>>)
       => game'.currentPlayer = (game.currentPlayer + 1) % 2]_vars

\* C32: once gameOver is true, no rollDice, playRoll, skipTurn or computer
\* move changes a token, currentPlayer, currentRolls, originalRolls or
\* winners.
C32_ConcludedIsTerminal ==
  [][(/\ game.gameOver
      /\ last'.op \in {"rollDice", "playRoll", "skipTurn", "makeComputerMove"})
       => /\ game'.tokens = game.tokens
          /\ game'.currentPlayer = game.currentPlayer
          /\ game'.currentRolls = game.currentRolls
          /\ game'.originalRolls = game.originalRolls
          /\ game'.winners = game.winners]_vars

C34_PlayMovesOwnColours ==
  [][(last'.op = "playRoll" /\ last'.err = NoError)
       => LET p == findPlayerBy(game.players, "playerIndex", last'.seat) IN
          \A k \in TokenIds :
            game'.tokens[k].steps > game.tokens[k].steps
              => Includes(game.players[p].colors, ToLowerCase(ColorOf(k)))]_vars

\* C35: a rollDice of the seat on turn while currentRolls still holds a face
\* does not replace the faces of the turn.
C35_NoSecondRollInTurn ==
  [][(/\ last'.op = "rollDice"
      /\ last'.seat = game.currentPlayer
      /\ Len(game.currentRolls) > 0)
       => /\ game'.currentRolls = game.currentRolls
          /\ game'.originalRolls = game.originalRolls]_vars

\* C36: at most one computer move is pending at any time, and a rollDice,
\* playRoll or skipTurn that passes the turn to the computer seat schedules
\* exactly one.
C36_OneAITimerPending ==
  /\ [](game.aiTimers <= 1)
  /\ [][(/\ last'.op \in {"rollDice", "playRoll", "skipTurn"}
         /\ last'.err = NoError
         /\ game.vsComputer
         /\ game.currentPlayer # ComputerSeat
         /\ game'.currentPlayer = ComputerSeat)
          => game'.aiTimers = game.aiTimers + 1]_vars

\* C37: a move never sends back to base a token of the mover's own seat,
\* neither of the mover's colour nor of the seat's second colour.
C37_NoCaptureOfOwnSeat ==
  [][\A k, m \in TokenIds :
       (/\ game'.tokens[m].steps > game.tokens[m].steps
        /\ game.tokens[k].steps > 0
        /\ game'.tokens[k].steps = 0
        /\ last'.op \in {"playRoll", "makeComputerMove"})
         => SeatOfColor(ColorOf(k)) # SeatOfColor(ColorOf(m))]_vars

\* C38: in a game that is registered and not over, some seat has the index
\* currentPlayer.
C38_SeatOnTurnExists ==
  (game.registered /\ ~game.gameOver)
    => \E i \in DOMAIN game.players :
         game.players[i].playerIndex = game.currentPlayer

\* the seat on turn owns a token that has walked the whole path: isValidMove
\* tests the overshoot only below that, so every face moves it on
OwnsWalkedOutToken(g) ==
  \E k \in DOMAIN g.tokens :
    /\ Includes(g.players[g.currentPlayer + 1].colors,
                ToLowerCase(ColorOf(k)))
    /\ g.tokens[k].steps >= TRACK_LENGTH + HOME_COLUMN_LENGTH - 1

\* a computer move that rolls two sixes for such a seat plays one of them and
\* schedules itself again: the same seat stays on turn with a computer move
\* pending, and it still owns a token that has walked the whole path
SixesKeepComputerMovePending ==
  (game.aiTimers > 0 /\ ~game.gameOver /\ OwnsWalkedOutToken(game))
    => LET h == makeComputerMove([game EXCEPT !.aiTimers = @ - 1], <<6, 6>>)
       IN /\ h.aiTimers > 0
          /\ h.currentPlayer = game.currentPlayer
          /\ ~h.gameOver
          /\ OwnsWalkedOutToken(h)

C40_LateDisconnectIsIgnored ==
  [][(/\ last'.op = "handleDisconnect"
      /\ last'.seat = -1
      /\ game'.playerSockets # game.playerSockets)
       => /\ game'.players = game.players
          /\ game'.disconnectTimers = game.disconnectTimers]_vars

\* the seat of p0 was bound to s2 while s0 was open, then s0 closed
C40_Witness ==
  /\ last.op = "handleDisconnect"
  /\ last.seat = -1
  /\ ops = 1
  /\ "s0" \notin game.playerSockets
  /\ "s2" \in game.playerSockets
  /\ game.disconnectTimers = <<>>
  /\ \E i \in DOMAIN game.players :
       /\ game.players[i].playerId = "p0"
       /\ game.players[i].id = "s2"
       /\ ~game.players[i].disconnected
       /\ game.players[i].disconnectTimer = NoTimer

====
